---- MODULE Spec2Model ----
(***************************************************************************)
(* Lost-and-found card service: the in-memory card store, the pickup-code  *)
(* generator, the identity resolver and the HTTP handlers of               *)
(* backend/src/routes/cards.js.  A handler runs atomically between two     *)
(* awaits (Node's single thread); a handler suspended at an await is an    *)
(* entry of `pending` that a later step resumes with the collaborator's    *)
(* outcome.                                                                *)
(*                                                                         *)
(* JavaScript strings are sequences of one-character strings.  The code    *)
(* tests optional fields for truthiness only, so null, undefined and the   *)
(* empty string are all the falsy value NULL.                              *)
(***************************************************************************)
EXTENDS Integers, Sequences, FiniteSets, TLC

\* ------------------------------------------------------------------ bounds
MaxCards == 2       \* intakes accepted (cards ever created)
MaxPending == 2     \* handlers suspended at an await at the same time
MaxClock == 2       \* last value of the wall clock
MaxSeeds == 2       \* distinct outcomes of the random source per code

\* ------------------------------------------------------- values and helpers
NULL == <<>>

NoDate == 0

Truthy(x) == x # NULL

\* a || b
OrElse(a, b) == IF Truthy(a) THEN a ELSE b

RECURSIVE StripSpaces(_)
\* String(x).trim().replace(/\s+/g, '')
StripSpaces(s) ==
    IF s = <<>> THEN <<>>
    ELSE IF Head(s) = " " THEN StripSpaces(Tail(s))
         ELSE <<Head(s)>> \o StripSpaces(Tail(s))

RECURSIVE TrimRight(_)
TrimRight(s) ==
    IF s # <<>> /\ s[Len(s)] = " " THEN TrimRight(SubSeq(s, 1, Len(s) - 1)) ELSE s

RECURSIVE Trim(_)
\* String.prototype.trim
Trim(s) ==
    IF s # <<>> /\ Head(s) = " " THEN Trim(Tail(s)) ELSE TrimRight(s)

\* an address check that looks for no '@'
HasAtUnchecked(s) == TRUE

\* email.indexOf('@') === -1
HasAt(s) == \E i \in 1..Len(s) : s[i] = "@"

\* ------------------------------------------------------------ identifiers
Box1 == <<"B", "O", "X", "_", "1">>
Box2 == <<"B", "O", "X", "_", "2">>
BoxIds == {Box1, Box2}

RedIdA == <<"1", "3", "2", "2", "6", "4", "6", "1", "0">>
RedIdB == <<"1", "3", "1", "7", "4", "0", "9", "5", "7">>
RedIdUnknown == <<"9", "9", "9", "9", "9", "9", "9", "9", "9">>
RedIdSpaced == <<" ", "1", "3", "2", "2", "6", " ", "4", "6", "1", "0">>
FullNameOcr == <<"A", "n">>
FullNameDefault == <<"S", "t", "u", "d", "e", "n", "t">>

EmailA == <<"a", "j", "a", "s", "t", "i", "7", "7", "2", "0", "@",
            "s", "d", "s", "u", ".", "e", "d", "u">>
EmailB == <<"n", "g", "a", "r", "i", "b", "i", "3", "9", "1", "6",
            "s", "d", "s", "u", ".", "e", "d", "u">>
EmailStaff == <<"s", "t", "a", "f", "f", "@", "s", "d", "s", "u">>
EmailNoAt == <<"s", "t", "a", "f", "f">>
EmailOther == <<"d", "e", "s", "k", "@", "s", "d", "s", "u">>

\* the resolver's module-level table: an object that addRedIdMapping can
\* write to
VARIABLE redIdEmailMap

\* the object literal redIdEmailMap is initialised with
redIdEmailMapLiteral == (RedIdA :> EmailA) @@ (RedIdB :> EmailB)

\* a lookup that hands on what the table gives for a key it does not have
Undefined == <<"undefined">>
getEmailByRedIdOrUndefined(redId) ==
    IF ~Truthy(redId) THEN NULL
    ELSE LET normalizedRedId == StripSpaces(redId)
         IN IF normalizedRedId \in DOMAIN redIdEmailMap
            THEN redIdEmailMap[normalizedRedId]
            ELSE Undefined

getEmailByRedId(redId) ==
    IF ~Truthy(redId) THEN NULL
    ELSE LET normalizedRedId == StripSpaces(redId)
         IN IF normalizedRedId \in DOMAIN redIdEmailMap
            THEN redIdEmailMap[normalizedRedId]
            ELSE NULL

\* crypto.randomUUID(): the ids the runtime hands out, in the order it hands
\* them out; it never hands out the same id twice
\* (the 28 characters after the first group are abbreviated to two)
UuidTail == <<"-", "1">>
Uuid1 == <<"a", "3", "3", "c", "d", "b", "0", "d">> \o UuidTail
Uuid2 == <<"7", "f", "0", "1", "b", "2", "c", "4">> \o UuidTail
Uuid3 == <<"0", "0", "e", "9", "a", "a", "1", "5">> \o UuidTail
UuidPool == <<Uuid1, Uuid2, Uuid3>>
Uuids == {UuidPool[k] : k \in 1..Len(UuidPool)}

\* an id that differs from Uuid1 after the first group only
Uuid1Twin == SubSeq(Uuid1, 1, 8) \o <<"-", "2">>

\* the ids the runtime may hand out, in any order
AnyUuids == Uuids \cup {Uuid1Twin}

\* ---------------------------------------------------- pickup code generator
\* the digits of a keypad that counts from zero
allowedDigitsFromZero == <<"0", "1", "2", "3">>

allowedDigits == <<"1", "2", "3", "4">>

\* Math.floor(Math.random() * allowedDigits.length) of the i-th draw (i from
\* 0) when the random source is in outcome `seed`
randomIndex(seed, i) ==
    LET n == (seed * 77) % 256
    IN CASE i = 0 -> (n \div 64) % Len(allowedDigits)
         [] i = 1 -> (n \div 16) % Len(allowedDigits)
         [] i = 2 -> (n \div 4) % Len(allowedDigits)
         [] OTHER -> n % Len(allowedDigits)

Seeds == 0..(MaxSeeds - 1)

RECURSIVE generateFrom(_, _, _, _)
generateFrom(seed, i, length, code) ==
    IF i < length
    THEN generateFrom(seed, i + 1, length,
                      code \o <<allowedDigits[randomIndex(seed, i) + 1]>>)
    ELSE code

generatePickupCode(seed, length) == generateFrom(seed, 0, length, <<>>)

\* --------------------------------------------------------------- the store
\* a createCard that files every card under the web source
createCardAsWeb(id, cardData, date) ==
    [id |-> id,
     redId |-> OrElse(cardData.redId, NULL),
     fullName |-> NULL,
     email |-> NULL,
     source |-> "web",
     finderContact |-> OrElse(cardData.finderContact, NULL),
     locationDescription |-> OrElse(cardData.locationDescription, NULL),
     boxId |-> OrElse(cardData.boxId, NULL),
     pickupCode |-> OrElse(cardData.pickupCode, NULL),
     status |-> cardData.status,
     createdAt |-> date,
     pickedUpAt |-> NoDate]

\* createCard: the record pushed for cardData, with the id and date drawn
createCard(id, cardData, date) ==
    [id |-> id,
     redId |-> OrElse(cardData.redId, NULL),
     fullName |-> NULL,
     email |-> NULL,
     source |-> cardData.source,
     finderContact |-> OrElse(cardData.finderContact, NULL),
     locationDescription |-> OrElse(cardData.locationDescription, NULL),
     boxId |-> OrElse(cardData.boxId, NULL),
     pickupCode |-> OrElse(cardData.pickupCode, NULL),
     status |-> cardData.status,
     createdAt |-> date,
     pickedUpAt |-> NoDate]

Indices(store) == 1..Len(store)

\* Array.prototype.find: of the indices whose element passes the test, the
\* first one; 0 if there is none
\* a search that keeps the last match
FindLastIndex(matching) ==
    IF matching = {} THEN 0
    ELSE CHOOSE i \in matching : \A j \in matching : i >= j

FindIndex(matching) ==
    IF matching = {} THEN 0
    ELSE CHOOSE i \in matching : \A j \in matching : i <= j

findCardById(store, cardId) ==
    FindIndex({i \in Indices(store) : store[i].id = cardId})

\* String.prototype.toUpperCase, on the characters an id is made of
UpperChar(c) ==
    CASE c = "a" -> "A" [] c = "b" -> "B" [] c = "c" -> "C"
      [] c = "d" -> "D" [] c = "e" -> "E" [] c = "f" -> "F"
      [] OTHER -> c

toUpperCase(s) == [i \in 1..Len(s) |-> UpperChar(s[i])]

\* String.prototype.substring(0, end)
substring(s, end) == SubSeq(s, 1, IF end < Len(s) THEN end ELSE Len(s))

\* a lookup that compares the code as it was typed
findCardByReferenceCodeAsTyped(store, referenceCode) ==
    IF ~Truthy(referenceCode) THEN 0
    ELSE LET normalizedCode == Trim(referenceCode)
         IN FindIndex({i \in Indices(store) :
                toUpperCase(substring(store[i].id, 8)) = normalizedCode})

findCardByReferenceCode(store, referenceCode) ==
    IF ~Truthy(referenceCode) THEN 0
    ELSE LET normalizedCode == toUpperCase(Trim(referenceCode))
         IN FindIndex({i \in Indices(store) :
                toUpperCase(substring(store[i].id, 8)) = normalizedCode})

\* a lookup by the code alone
findCardByCodeOnly(store, pickupCode, boxId) ==
    FindIndex({i \in Indices(store) : store[i].pickupCode = pickupCode})

findCardByPickupCode(store, pickupCode, boxId) ==
    FindIndex({i \in Indices(store) :
                  store[i].pickupCode = pickupCode /\ store[i].boxId = boxId})

\* Object.assign(card, updates) on the card with this id
updateCard(store, cardId, updates) ==
    LET i == findCardById(store, cardId)
    IN IF i = 0 THEN store
       ELSE [store EXCEPT ![i] =
                [f \in DOMAIN store[i] |->
                    IF f \in DOMAIN updates THEN updates[f] ELSE store[i][f]]]

RECURSIVE insertByDate(_, _)
\* the place a stable sort with (a, b) => b.createdAt - a.createdAt gives a
\* card that comes after the cards of `sorted` in the array
insertByDate(sorted, card) ==
    IF sorted = <<>> THEN <<card>>
    ELSE IF Head(sorted).createdAt >= card.createdAt
         THEN <<Head(sorted)>> \o insertByDate(Tail(sorted), card)
         ELSE <<card>> \o sorted

RECURSIVE sortOldestFirst(_)
\* a sort with (a, b) => a.createdAt - b.createdAt
sortOldestFirst(cards) ==
    IF cards = <<>> THEN <<>>
    ELSE LET rest == sortOldestFirst(Tail(cards))
             older == SelectSeq(rest, LAMBDA c : c.createdAt < Head(cards).createdAt)
             newer == SelectSeq(rest, LAMBDA c : c.createdAt >= Head(cards).createdAt)
         IN older \o <<Head(cards)>> \o newer

RECURSIVE sortNewestFirst(_)
\* cards.sort((a, b) => new Date(b.createdAt) - new Date(a.createdAt))
sortNewestFirst(cards) ==
    IF cards = <<>> THEN <<>>
    ELSE insertByDate(sortNewestFirst(SubSeq(cards, 1, Len(cards) - 1)),
                      cards[Len(cards)])

\* filters.status is "" when the request gives none
getAllCards(store, status) ==
    sortNewestFirst(IF status # ""
                    THEN SelectSeq(store, LAMBDA card : card.status = status)
                    ELSE store)

\* ------------------------------------------------- requests and responses
\* Fields of a response the handler does not set
NoRes ==
    [http |-> 0, ok |-> FALSE, reason |-> "", cardId |-> NULL,
     pickupCode |-> NULL, boxId |-> NULL, redId |-> NULL,
     emailSent |-> FALSE, emailAddress |-> NULL, success |-> FALSE]

Res(fields) == fields @@ NoRes

\* Fields of a suspended handler's locals it does not use
NoLocals ==
    [kind |-> "", pc |-> "", cardId |-> NULL, manualRedId |-> NULL,
     redIdToUse |-> NULL, extractedFullName |-> NULL,
     ownerEmail |-> NULL, ownerFullName |-> NULL, pickupCode |-> NULL]

Locals(fields) == fields @@ NoLocals

\* A handler segment runs from a request or a settled promise to the next
\* await or to the response: it yields the store it leaves, and either the
\* locals it suspends with or the response it sends.
Responds(store, res) ==
    [store |-> store, awaiting |-> FALSE, locals |-> NoLocals, res |-> res]

Awaits(store, locals) ==
    [store |-> store, awaiting |-> TRUE, locals |-> locals, res |-> NoRes]

Remove(seq, k) == SubSeq(seq, 1, k - 1) \o SubSeq(seq, k + 1, Len(seq))

\* what the requests carry
BoxIdInputs == BoxIds \cup {NULL}
PhotoBoxIdInputs == {NULL, Box1}
RedIdInputs == {NULL, RedIdA, RedIdUnknown}
ManualRedIdInputs == {NULL, <<" ">>, RedIdSpaced, RedIdUnknown}
ImageInputs == {"none", "file"}
OcrOutcomes ==
    {[threw |-> TRUE, redId |-> NULL, fullName |-> NULL],
     [threw |-> FALSE, redId |-> NULL, fullName |-> NULL],
     [threw |-> FALSE, redId |-> RedIdUnknown, fullName |-> NULL],
     [threw |-> FALSE, redId |-> RedIdA, fullName |-> FullNameOcr]}
FreeTexts == {NULL}
CodeNeverIssued == <<"4", "4", "4", "4">>
PickupCodeInputs ==
    {generatePickupCode(s, 4) : s \in Seeds} \cup {NULL, CodeNeverIssued}
EmailInputs == {NULL, EmailNoAt, EmailStaff}
UuidUnknown == <<"f", "f", "f", "f", "f", "f", "f", "f">> \o UuidTail
CardIdInputs == Uuids \cup {UuidUnknown}
\* the tokens of GET /cards/:id: ids, reference codes in either case and in
\* mixed case, the same with a space after them, and tokens of no card
TokenInputs ==
    LET refs == {substring(id, 8) : id \in {Uuid1, Uuid2}}
        mixed == {[i \in 1..Len(r) |-> IF i % 2 = 1 THEN UpperChar(r[i]) ELSE r[i]] : r \in refs}
        codes == refs \cup {toUpperCase(r) : r \in refs} \cup mixed
    IN {Uuid1, Uuid1Twin, Uuid2, UuidUnknown, substring(UuidUnknown, 8)}
       \cup codes \cup {c \o <<" ">> : c \in codes}
StatusInputs == {"", "waiting_for_email", "email_sent", "picked_up", "lost"}
NotifyOutcomes == {"true", "false", "throw"}

\* ----------------------------------------------------- POST /pickup-request
\* a pickup that is open to notified cards only
pickupRequestNotifiedOnly(store, date, pickupCode, boxId) ==
    LET i == findCardByPickupCode(store, pickupCode, boxId)
    IN IF ~Truthy(pickupCode) \/ ~Truthy(boxId)
       THEN Responds(store, Res([http |-> 400]))
       ELSE IF i = 0
       THEN Responds(store, Res([http |-> 200, ok |-> FALSE,
                                 reason |-> "invalid_code"]))
       ELSE IF store[i].status # "email_sent"
       THEN Responds(store, Res([http |-> 200, ok |-> FALSE,
                                 reason |-> "already_picked_up"]))
       ELSE Responds(updateCard(store, store[i].id,
                        [status |-> "picked_up", pickedUpAt |-> date]),
                     Res([http |-> 200, ok |-> TRUE, cardId |-> store[i].id]))

\* a handler that marks every card carrying the code, whatever its box
pickupRequestEveryBox(store, date, pickupCode, boxId) ==
    LET i == findCardByPickupCode(store, pickupCode, boxId)
    IN IF ~Truthy(pickupCode) \/ ~Truthy(boxId)
       THEN Responds(store, Res([http |-> 400]))
       ELSE IF i = 0
       THEN Responds(store, Res([http |-> 200, ok |-> FALSE,
                                 reason |-> "invalid_code"]))
       ELSE IF store[i].status = "picked_up"
       THEN Responds(store, Res([http |-> 200, ok |-> FALSE,
                                 reason |-> "already_picked_up"]))
       ELSE Responds([j \in 1..Len(store) |->
                        IF store[j].pickupCode = pickupCode
                        THEN [store[j] EXCEPT !.status = "picked_up",
                                              !.pickedUpAt = date]
                        ELSE store[j]],
                     Res([http |-> 200, ok |-> TRUE, cardId |-> store[i].id]))

pickupRequest(store, date, pickupCode, boxId) ==
    LET i == findCardByPickupCode(store, pickupCode, boxId)
    IN IF ~Truthy(pickupCode) \/ ~Truthy(boxId)
       THEN Responds(store, Res([http |-> 400]))
       ELSE IF i = 0
       THEN Responds(store, Res([http |-> 200, ok |-> FALSE,
                                 reason |-> "invalid_code"]))
       ELSE IF store[i].status = "picked_up"
       THEN Responds(store, Res([http |-> 200, ok |-> FALSE,
                                 reason |-> "already_picked_up"]))
       ELSE Responds(updateCard(store, store[i].id,
                        [status |-> "picked_up", pickedUpAt |-> date]),
                     Res([http |-> 200, ok |-> TRUE, cardId |-> store[i].id]))

\* --------------------------------------------------------- GET /cards/:id
\* a lookup that takes every token for a reference code
getCardByCodeOnly(store, id) ==
    LET i == findCardByReferenceCode(store, id)
    IN IF i = 0
       THEN Res([http |-> 404])
       ELSE Res([http |-> 200, card |-> store[i]])

\* the response: the card found by id, else by reference code
getCard(store, id) ==
    LET byId == findCardById(store, id)
        byCode == IF byId = 0 /\ Len(id) = 8
                  THEN findCardByReferenceCode(store, id)
                  ELSE byId
        i == IF byCode = 0 THEN findCardByReferenceCode(store, id) ELSE byCode
    IN IF i = 0
       THEN Res([http |-> 404])
       ELSE Res([http |-> 200, card |-> store[i]])

\* the handler has nothing to await
getCardRequest(store, id) == Responds(store, getCard(store, id))

\* -------------------------------------------------------------- GET /cards
getCards(store, status) ==
    Responds(store, Res([http |-> 200, cards |-> getAllCards(store, status)]))

\* --------------------------------------------------- POST /found-card-redid
\* up to the await of the notifier, or to the response when nobody is notified
foundCardRedId(store, date, id, seed, redId, boxId) ==
    LET pickupCode == generatePickupCode(seed, 4)
        card == createCard(id,
                    [redId |-> redId, source |-> "box", boxId |-> boxId,
                     pickupCode |-> pickupCode, status |-> "waiting_for_email",
                     finderContact |-> NULL, locationDescription |-> NULL], date)
        email == getEmailByRedId(redId)
    IN IF ~Truthy(redId) \/ ~Truthy(boxId)
       THEN Responds(store, Res([http |-> 400]))
       ELSE IF Truthy(email)
       THEN Awaits(Append(store, card),
                   Locals([kind |-> "box", pc |-> "notify", cardId |-> id,
                           ownerEmail |-> email, ownerFullName |-> NULL,
                           pickupCode |-> pickupCode]))
       ELSE Responds(Append(store, card),
                     Res([http |-> 200, cardId |-> id,
                          pickupCode |-> pickupCode]))

\* a continuation that saves the owner only when the notifier succeeded
foundCardRedIdNotifiedSavesOnSuccess(store, p, outcome) ==
    Responds(IF outcome = "true"
             THEN updateCard(store, p.cardId,
                     [status |-> "email_sent", email |-> p.ownerEmail,
                      fullName |-> OrElse(p.ownerFullName, NULL)])
             ELSE store,
             Res([http |-> 200, cardId |-> p.cardId,
                  pickupCode |-> p.pickupCode]))

\* the notifier's promise settles
foundCardRedIdNotified(store, p, outcome) ==
    Responds(IF outcome = "true"
             THEN updateCard(store, p.cardId,
                     [status |-> "email_sent", email |-> p.ownerEmail,
                      fullName |-> OrElse(p.ownerFullName, NULL)])
             ELSE updateCard(store, p.cardId,
                     [email |-> p.ownerEmail,
                      fullName |-> OrElse(p.ownerFullName, NULL)]),
             Res([http |-> 200, cardId |-> p.cardId,
                  pickupCode |-> p.pickupCode]))

\* --------------------------------------------------- POST /found-card-photo
\* a photo intake that leaves the code to a later step
photoPickupCodeLater(seed, boxId) == NULL

\* a photo intake whose codes are one digit short
photoPickupCodeShort(seed, boxId) ==
    IF Truthy(boxId) THEN generatePickupCode(seed, 3) ELSE NULL

\* const pickupCode = boxId ? generatePickupCode(4) : null
photoPickupCode(seed, boxId) ==
    IF Truthy(boxId) THEN generatePickupCode(seed, 4) ELSE NULL

\* up to the await of the OCR
foundCardPhoto(store, date, id, seed, image, finderContact, locationDescription, boxId, manualRedId) ==
    LET pickupCode == photoPickupCode(seed, boxId)
        card == createCard(id,
                    [redId |-> NULL, source |-> "web",
                     finderContact |-> OrElse(finderContact, NULL),
                     locationDescription |-> OrElse(locationDescription, NULL),
                     boxId |-> OrElse(boxId, NULL),
                     pickupCode |-> pickupCode,
                     status |-> "waiting_for_email"], date)
    IN IF image = "none"
       THEN Responds(store, Res([http |-> 400]))
       ELSE Awaits(Append(store, card),
                   Locals([kind |-> "photo", pc |-> "ocr", cardId |-> id,
                           manualRedId |-> manualRedId]))

\* a response that leaves the address out
photoResponseWithoutAddress(store, cardId, redIdToUse, emailSentStatus, emailAddress) ==
    LET finalCard == store[findCardById(store, cardId)]
    IN Res([http |-> 200,
            cardId |-> finalCard.id,
            boxId |-> OrElse(finalCard.boxId, NULL),
            pickupCode |-> OrElse(finalCard.pickupCode, NULL),
            redId |-> OrElse(OrElse(redIdToUse, finalCard.redId), NULL),
            emailSent |-> emailSentStatus,
            emailAddress |-> NULL])

\* what the photo handler answers
photoResponse(store, cardId, redIdToUse, emailSentStatus, emailAddress) ==
    LET finalCard == store[findCardById(store, cardId)]
    IN Res([http |-> 200,
            cardId |-> finalCard.id,
            boxId |-> OrElse(finalCard.boxId, NULL),
            pickupCode |-> OrElse(finalCard.pickupCode, NULL),
            redId |-> OrElse(OrElse(redIdToUse, finalCard.redId), NULL),
            emailSent |-> emailSentStatus,
            emailAddress |-> OrElse(emailAddress, NULL)])

\* an identifier selection that prefers what the OCR read
selectRedIdOcrFirst(trimmedManualRedId, extractedRedId) ==
    OrElse(extractedRedId, trimmedManualRedId)

\* redIdToUse = trimmedManualRedId || extractedRedId
selectRedId(trimmedManualRedId, extractedRedId) ==
    OrElse(trimmedManualRedId, extractedRedId)

\* let extractedInfo = null: what the handler holds when the OCR gave nothing
NoExtractedInfo == [threw |-> FALSE, redId |-> NULL, fullName |-> NULL]

\* after the OCR step, with what it left in extractedInfo: identifier
\* selection, owner lookup, and on to the await of the notifier or to the
\* response
foundCardPhotoSelect(store, p, extractedInfo) ==
    LET trimmedManualRedId == Trim(p.manualRedId)
        extractedRedId == OrElse(extractedInfo.redId, NULL)
        redIdToUse == selectRedId(trimmedManualRedId, extractedRedId)
        extractedFullName == OrElse(extractedInfo.fullName, NULL)
        store1 == IF Truthy(redIdToUse) \/ Truthy(extractedFullName)
                  THEN updateCard(store, p.cardId,
                          [redId |-> OrElse(redIdToUse, NULL),
                           fullName |-> OrElse(extractedFullName, NULL)])
                  ELSE store
        email == IF Truthy(redIdToUse)
                 THEN getEmailByRedId(StripSpaces(Trim(redIdToUse)))
                 ELSE NULL
    IN IF Truthy(email)
       THEN Awaits(store1,
                   Locals([kind |-> "photo", pc |-> "notify",
                           cardId |-> p.cardId, manualRedId |-> p.manualRedId,
                           redIdToUse |-> redIdToUse,
                           extractedFullName |-> extractedFullName,
                           ownerEmail |-> email,
                           ownerFullName |-> OrElse(extractedFullName, NULL)]))
       ELSE Responds(store1,
                     photoResponse(store1, p.cardId, redIdToUse, FALSE, NULL))

\* an OCR step whose failure ends the request in the handler's outer catch
foundCardPhotoOcrAborts(store, p, ocr) ==
    IF ocr.threw
    THEN Responds(store, Res([http |-> 500]))
    ELSE foundCardPhotoSelect(store, p, ocr)

\* the OCR's promise settles: a rejection is caught and leaves extractedInfo
\* null
foundCardPhotoOcr(store, p, ocr) ==
    foundCardPhotoSelect(store, p, IF ocr.threw THEN NoExtractedInfo ELSE ocr)

\* a continuation that lets the notifier's exception reach the handler's
\* outer catch
foundCardPhotoNotifiedUncaught(store, p, outcome) ==
    LET fullName == OrElse(OrElse(p.ownerFullName, p.extractedFullName), NULL)
        store1 == IF outcome = "true"
                  THEN updateCard(store, p.cardId,
                          [status |-> "email_sent", email |-> p.ownerEmail,
                           fullName |-> fullName])
                  ELSE updateCard(store, p.cardId,
                          [email |-> p.ownerEmail, fullName |-> fullName])
    IN IF outcome = "throw"
       THEN Responds(store, Res([http |-> 500]))
       ELSE Responds(store1,
                     photoResponse(store1, p.cardId, p.redIdToUse,
                                   outcome = "true", p.ownerEmail))

\* the notifier's promise settles
foundCardPhotoNotified(store, p, outcome) ==
    LET fullName == OrElse(OrElse(p.ownerFullName, p.extractedFullName), NULL)
        store1 == IF outcome = "true"
                  THEN updateCard(store, p.cardId,
                          [status |-> "email_sent", email |-> p.ownerEmail,
                           fullName |-> fullName])
                  ELSE updateCard(store, p.cardId,
                          [email |-> p.ownerEmail, fullName |-> fullName])
    IN Responds(store1,
                photoResponse(store1, p.cardId, p.redIdToUse,
                              outcome = "true", p.ownerEmail))

\* ------------------------------------------------ POST /cards/:id/set-email
\* a fresh code for every boxed card
needsLateCodeAlways(card) == Truthy(card.boxId)

\* no code but the one given at creation
needsLateCodeNever(card) == FALSE

\* if (card.boxId && !pickupCode)
needsLateCode(card) == Truthy(card.boxId) /\ ~Truthy(card.pickupCode)

\* a status check that turns away picked-up cards only
notWaitingForEmailTerminalOnly(card) == card.status = "picked_up"

\* if (card.status !== 'waiting_for_email')
notWaitingForEmail(card) == card.status # "waiting_for_email"

\* a handler that does not save the address before it notifies
setEmailUnsaved(store, seed, id, email) ==
    LET i == findCardById(store, id)
        card == store[i]
        store1 == IF needsLateCode(card)
                  THEN updateCard(store, card.id,
                          [pickupCode |-> generatePickupCode(seed, 4)])
                  ELSE store
        updatedCard == store1[findCardById(store1, id)]
    IN IF ~Truthy(email) \/ ~HasAt(email)
       THEN Responds(store, Res([http |-> 400, reason |-> "invalid_email"]))
       ELSE IF i = 0
       THEN Responds(store, Res([http |-> 404]))
       ELSE IF notWaitingForEmail(card)
       THEN Responds(store, Res([http |-> 400, reason |-> "not_waiting"]))
       ELSE Awaits(store1,
                   Locals([kind |-> "set-email", pc |-> "notify", cardId |-> id,
                           ownerEmail |-> email,
                           ownerFullName |->
                               OrElse(updatedCard.fullName, FullNameDefault),
                           pickupCode |-> updatedCard.pickupCode]))

\* up to the await of the notifier
setEmail(store, seed, id, email) ==
    LET i == findCardById(store, id)
        card == store[i]
        store1 == IF needsLateCode(card)
                  THEN updateCard(store, card.id,
                          [pickupCode |-> generatePickupCode(seed, 4)])
                  ELSE store
        store2 == updateCard(store1, card.id, [email |-> email])
        updatedCard == store2[findCardById(store2, id)]
    IN IF ~Truthy(email) \/ ~HasAt(email)
       THEN Responds(store, Res([http |-> 400, reason |-> "invalid_email"]))
       ELSE IF i = 0
       THEN Responds(store, Res([http |-> 404]))
       ELSE IF notWaitingForEmail(card)
       THEN Responds(store, Res([http |-> 400, reason |-> "not_waiting"]))
       ELSE Awaits(store2,
                   Locals([kind |-> "set-email", pc |-> "notify", cardId |-> id,
                           ownerEmail |-> email,
                           ownerFullName |->
                               OrElse(updatedCard.fullName, FullNameDefault),
                           pickupCode |-> updatedCard.pickupCode]))

\* a continuation that reports the success and leaves the status alone
setEmailNotifiedKeepsStatus(store, p, outcome) ==
    IF outcome = "true"
    THEN Responds(store,
                  Res([http |-> 200, success |-> TRUE, cardId |-> p.cardId]))
    ELSE IF outcome = "false"
    THEN Responds(store, Res([http |-> 500, success |-> FALSE,
                              cardId |-> p.cardId]))
    ELSE Responds(store, Res([http |-> 500, reason |-> "error"]))

\* the notifier's promise settles
setEmailNotified(store, p, outcome) ==
    IF outcome = "true"
    THEN Responds(updateCard(store, p.cardId, [status |-> "email_sent"]),
                  Res([http |-> 200, success |-> TRUE, cardId |-> p.cardId]))
    ELSE IF outcome = "false"
    THEN Responds(store, Res([http |-> 500, success |-> FALSE,
                              cardId |-> p.cardId]))
    ELSE Responds(store, Res([http |-> 500, reason |-> "error"]))

\* ------------------------------------------------------------------- state
VARIABLES
    cardsStore,   \* the store's array, in insertion order
    pending,      \* the locals of the handlers suspended at an await
    now,          \* what new Date() returns
    okPickups,    \* per card id, the pickup-requests answered ok:true with it
    \* the box (arduino_integrated_code.ino)
    validCodes,   \* validCodes[0 .. codeCount-1]
    opened,       \* the (code, way) pairs openDoor() has run for
    \* the server's serial bridge (cards.js, Arduino Communication Module)
    pickupCodesStore,  \* the entries, in the order they were stored
    serialPort,        \* 0 for null, else the SerialPort object it refers to
    isPortOpen,
    ports,             \* per SerialPort object created: opening, open, failed
    finding,           \* initializeArduinoConnection calls awaiting findArduinoPort
    timers,            \* per entry, the setTimeout callbacks not yet run
    written            \* per entry, the times its line went out on an open port

boxVars == <<validCodes, opened>>
bridgeVars ==
    <<pickupCodesStore, serialPort, isPortOpen, ports, finding, timers, written>>
serverVars == <<cardsStore, pending, now, okPickups, redIdEmailMap>>
vars == <<serverVars, boxVars, bridgeVars>>

\* the box after setup(), the bridge after the module is loaded
BoxStarts == validCodes = <<>> /\ opened = {}
BridgeStarts ==
    /\ pickupCodesStore = <<>>
    /\ serialPort = 0
    /\ isPortOpen = FALSE
    /\ ports = <<>>
    /\ finding = 0
    /\ timers = <<>>
    /\ written = <<>>

\* the id crypto.randomUUID() returns next
randomUUID == UuidPool[Len(cardsStore) + 1]

Init ==
    /\ cardsStore = <<>>
    /\ pending = <<>>
    /\ now = 1
    /\ okPickups = [id \in AnyUuids |-> 0]
    /\ redIdEmailMap = redIdEmailMapLiteral
    /\ BoxStarts
    /\ BridgeStarts

\* a request's first segment runs
Start(r) ==
    /\ cardsStore' = r.store
    /\ UNCHANGED <<redIdEmailMap, boxVars, bridgeVars>>
    /\ IF r.awaiting
       THEN /\ Len(pending) < MaxPending
            /\ pending' = Append(pending, r.locals)
       ELSE pending' = pending

\* the k-th suspended handler runs its next segment
Resume(k, r) ==
    /\ cardsStore' = r.store
    /\ UNCHANGED <<redIdEmailMap, boxVars, bridgeVars>>
    /\ pending' = IF r.awaiting
                  THEN [pending EXCEPT ![k] = r.locals]
                  ELSE Remove(pending, k)

Suspended(kind, pc) ==
    {k \in 1..Len(pending) : pending[k].kind = kind /\ pending[k].pc = pc}

PickupRequest(pickupCode, boxId) ==
    LET r == pickupRequest(cardsStore, now, pickupCode, boxId)
    IN /\ Start(r)
       /\ okPickups' = IF r.res.ok
                       THEN [okPickups EXCEPT ![r.res.cardId] = @ + 1]
                       ELSE okPickups
       /\ UNCHANGED now

FoundCardRedId(redId, boxId, seed) ==
    /\ Len(cardsStore) < MaxCards
    /\ Len(cardsStore) < Len(UuidPool)
    /\ Start(foundCardRedId(cardsStore, now, randomUUID, seed, redId, boxId))
    /\ UNCHANGED <<now, okPickups>>

FoundCardRedIdNotified(k, outcome) ==
    /\ k \in Suspended("box", "notify")
    /\ Resume(k, foundCardRedIdNotified(cardsStore, pending[k], outcome))
    /\ UNCHANGED <<now, okPickups>>

FoundCardPhoto(image, finderContact, locationDescription, boxId, manualRedId, seed) ==
    /\ Len(cardsStore) < MaxCards
    /\ Len(cardsStore) < Len(UuidPool)
    /\ Start(foundCardPhoto(cardsStore, now, randomUUID, seed, image,
                            finderContact, locationDescription, boxId,
                            manualRedId))
    /\ UNCHANGED <<now, okPickups>>

FoundCardPhotoOcr(k, ocr) ==
    /\ k \in Suspended("photo", "ocr")
    /\ Resume(k, foundCardPhotoOcr(cardsStore, pending[k], ocr))
    /\ UNCHANGED <<now, okPickups>>

FoundCardPhotoNotified(k, outcome) ==
    /\ k \in Suspended("photo", "notify")
    /\ Resume(k, foundCardPhotoNotified(cardsStore, pending[k], outcome))
    /\ UNCHANGED <<now, okPickups>>

SetEmail(id, email, seed) ==
    /\ Start(setEmail(cardsStore, seed, id, email))
    /\ UNCHANGED <<now, okPickups>>

SetEmailNotified(k, outcome) ==
    /\ k \in Suspended("set-email", "notify")
    /\ Resume(k, setEmailNotified(cardsStore, pending[k], outcome))
    /\ UNCHANGED <<now, okPickups>>

\* the box intake when the runtime draws this id, one it has not handed out
FoundCardRedIdDrawing(id, redId, boxId, seed) ==
    /\ Len(cardsStore) < MaxCards
    /\ findCardById(cardsStore, id) = 0
    /\ Start(foundCardRedId(cardsStore, now, id, seed, redId, boxId))
    /\ UNCHANGED <<now, okPickups>>

GetCard(id) ==
    /\ Start(getCardRequest(cardsStore, id))
    /\ UNCHANGED <<now, okPickups>>

GetCards(status) ==
    /\ Start(getCards(cardsStore, status))
    /\ UNCHANGED <<now, okPickups>>

\* the wall clock advances
Tick ==
    /\ now < MaxClock
    /\ now' = now + 1
    /\ UNCHANGED <<cardsStore, pending, okPickups, redIdEmailMap, boxVars, bridgeVars>>

\* the requests of each route
DoPickupRequest ==
    \E c \in PickupCodeInputs, b \in BoxIdInputs : PickupRequest(c, b)

DoFoundCardRedId ==
    \E r \in RedIdInputs, b \in BoxIdInputs, s \in Seeds : FoundCardRedId(r, b, s)

DoFoundCardPhoto ==
    \E im \in ImageInputs, fc \in FreeTexts, ld \in FreeTexts,
       b \in PhotoBoxIdInputs, m \in ManualRedIdInputs, s \in Seeds :
        FoundCardPhoto(im, fc, ld, b, m, s)

\* the random source is read only on the late-code path
LateSeeds(id) ==
    LET i == findCardById(cardsStore, id)
    IN IF i # 0 /\ needsLateCode(cardsStore[i]) THEN Seeds ELSE {0}

DoSetEmail ==
    \E id \in CardIdInputs, e \in EmailInputs :
        \E s \in LateSeeds(id) : SetEmail(id, e, s)

\* the promises that settle
DoFoundCardRedIdNotified ==
    \E k \in 1..Len(pending), o \in NotifyOutcomes : FoundCardRedIdNotified(k, o)

DoFoundCardPhotoOcr ==
    \E k \in 1..Len(pending), o \in OcrOutcomes : FoundCardPhotoOcr(k, o)

DoFoundCardPhotoNotified ==
    \E k \in 1..Len(pending), o \in NotifyOutcomes : FoundCardPhotoNotified(k, o)

DoSetEmailNotified ==
    \E k \in 1..Len(pending), o \in NotifyOutcomes : SetEmailNotified(k, o)

\* every route, at one instant of the clock
Next ==
    \/ DoFoundCardRedId
    \/ DoFoundCardRedIdNotified
    \/ DoFoundCardPhoto
    \/ DoFoundCardPhotoOcr
    \/ DoFoundCardPhotoNotified
    \/ DoSetEmail
    \/ DoSetEmailNotified
    \/ DoPickupRequest

Spec == Init /\ [][Next]_vars

\* the box path while the clock runs: cards come in from the box, staff
\* assign emails, owners pick up
NextBox ==
    \/ DoFoundCardRedId
    \/ DoFoundCardRedIdNotified
    \/ DoSetEmail
    \/ DoSetEmailNotified
    \/ DoPickupRequest
    \/ Tick

SpecBox == Init /\ [][NextBox]_vars

DoFoundCardRedIdDrawing ==
    \E id \in AnyUuids, r \in {RedIdA, RedIdUnknown}, s \in Seeds :
        FoundCardRedIdDrawing(id, r, Box1, s)

DoGetCard == \E id \in TokenInputs : GetCard(id)

DoGetCards == \E status \in StatusInputs : GetCards(status)

\* the status desk while the clock runs: cards come in from a box under any
\* ids, owners pick up, and cards are looked up and listed
NextDesk ==
    \/ DoFoundCardRedIdDrawing
    \/ DoFoundCardRedIdNotified
    \/ DoPickupRequest
    \/ DoGetCard
    \/ DoGetCards
    \/ Tick

SpecDesk == Init /\ [][NextDesk]_vars

\* the addresses two members of staff type for one card
AssignEmailInputs == {EmailStaff, EmailOther}

DoFoundCardRedIdUnresolved ==
    \E s \in Seeds : FoundCardRedId(RedIdUnknown, Box1, s)

DoSetEmailAssign ==
    \E id \in CardIdInputs, e \in AssignEmailInputs :
        \E s \in LateSeeds(id) : SetEmail(id, e, s)

\* manual assignment: cards nobody could be resolved for come in from a box,
\* staff assign addresses, owners pick up
NextAssign ==
    \/ DoFoundCardRedIdUnresolved
    \/ DoSetEmailAssign
    \/ DoSetEmailNotified
    \/ DoPickupRequest

SpecAssign == Init /\ [][NextAssign]_vars

\* a store whose first card was created by createCard({boxId}) with no code:
\* no route makes this call, set-email is written to tolerate it
InitLate ==
    /\ cardsStore \in
          {<<createCard(Uuid1,
                        [redId |-> NULL, source |-> "web", finderContact |-> NULL,
                         locationDescription |-> NULL, boxId |-> b,
                         pickupCode |-> NULL, status |-> "waiting_for_email"],
                        1)>> : b \in BoxIdInputs}
    /\ pending = <<>>
    /\ now = 1
    /\ okPickups = [id \in AnyUuids |-> 0]
    /\ redIdEmailMap = redIdEmailMapLiteral
    /\ BoxStarts
    /\ BridgeStarts

\* staff assign an address to such a card, among cards from the box
NextLate ==
    \/ DoFoundCardRedIdUnresolved
    \/ DoSetEmail
    \/ DoSetEmailNotified
    \/ DoPickupRequest

SpecLate == InitLate /\ [][NextLate]_vars

\* ------------------------------------------ the box: arduino_integrated_code
\* const String boxId = "BOX_1" (boxId names parameters elsewhere)
ownBoxId == Box1

\* String validCodes[20]
ValidCodesSize == 20

\* Arduino String: indexOf(ch, from), 0-based, -1 when there is none
indexOf(s, ch, from) ==
    IF \E i \in from..(Len(s) - 1) : s[i + 1] = ch
    THEN CHOOSE i \in from..(Len(s) - 1) :
            /\ s[i + 1] = ch
            /\ \A j \in from..(i - 1) : s[j + 1] # ch
    ELSE -1

\* Arduino String: substring(left, right), right excluded
substringBetween(s, left, right) ==
    IF left > Len(s) THEN <<>>
    ELSE SubSeq(s, left + 1, IF right > Len(s) THEN Len(s) ELSE right)

\* Arduino String: substring(left)
substringFrom(s, left) == substringBetween(s, left, Len(s))

startsWith(s, prefix) ==
    Len(s) >= Len(prefix) /\ SubSeq(s, 1, Len(prefix)) = prefix

isSpace(c) == c \in {" ", "\n", "\r", "\t"}

RECURSIVE trimRight(_)
trimRight(s) ==
    IF s # <<>> /\ isSpace(s[Len(s)])
    THEN trimRight(SubSeq(s, 1, Len(s) - 1))
    ELSE s

RECURSIVE trim(_)
\* Arduino String: trim()
trim(s) == IF s # <<>> /\ isSpace(Head(s)) THEN trim(Tail(s)) ELSE trimRight(s)

\* a list that grows past the array
addValidCodeUnbounded(codes, code) ==
    IF \E i \in 1..Len(codes) : codes[i] = code
    THEN codes
    ELSE Append(codes, code)

\* addValidCode: codes is validCodes[0 .. codeCount-1]
addValidCode(codes, code) ==
    IF \E i \in 1..Len(codes) : codes[i] = code
    THEN codes
    ELSE IF Len(codes) < ValidCodesSize
    THEN Append(codes, code)
    ELSE codes

CodePrefix == <<"C", "O", "D", "E", ":">>

\* loop, a complete line in serialBuffer (already trimmed)
codeMessage(codes, buffer) ==
    IF startsWith(buffer, CodePrefix)
    THEN LET codeStart == 5
             codeEnd == indexOf(buffer, ":", codeStart)
         IN IF codeEnd > codeStart
            THEN LET pickupCode ==
                         substringBetween(buffer, codeStart, codeEnd)
                     receivedBoxId == substringFrom(buffer, codeEnd + 1)
                 IN IF receivedBoxId = ownBoxId
                    THEN addValidCode(codes, pickupCode)
                    ELSE codes
            ELSE codes
    ELSE codes

SerialBufferLimit == 50

RECURSIVE serialRead(_, _, _)
\* loop, the characters of Serial one by one while inputCode is empty:
\* yields serialBuffer and the list after the last character
serialRead(serialBuffer, codes, chars) ==
    IF chars = <<>>
    THEN [serialBuffer |-> serialBuffer, validCodes |-> codes]
    ELSE LET c == Head(chars)
             appended == Append(serialBuffer, c)
         IN IF c = "C" /\ Len(serialBuffer) = 0
            THEN serialRead(<<"C">>, codes, Tail(chars))
            ELSE IF Len(serialBuffer) > 0
            THEN IF c = "\n" \/ c = "\r"
                 THEN serialRead(<<>>, codeMessage(codes, trim(appended)),
                                 Tail(chars))
                 ELSE IF Len(appended) > SerialBufferLimit
                 THEN serialRead(<<>>, codes, Tail(chars))
                 ELSE serialRead(appended, codes, Tail(chars))
            ELSE serialRead(serialBuffer, codes, Tail(chars))

\* sendCodeToArduino's message (cards.js): `CODE:${pickupCode}:${boxId}\n`
CodeLine(pickupCode, box) ==
    CodePrefix \o pickupCode \o <<":">> \o box \o <<"\n">>

\* what the box finds the link in when a code is entered
LinkStates == {"answers", "unreachable", "wifi_down"}

\* http.POST's result when no response came
HttpcErrorConnectionFailed == -1

\* response.indexOf("\"ok\":true"): res.json puts ok first, after the brace
okTrueIndex(res) == IF res.ok THEN 1 ELSE -1

\* a box that trusts its list before the server's answer
doorOpensForListed(foundInList, wifiConnected, httpResponseCode, okIndex) ==
    foundInList \/ (wifiConnected /\ httpResponseCode = 200 /\ okIndex > 0)

\* checkCode's branches: does it reach openDoor()
doorOpens(foundInList, wifiConnected, httpResponseCode, okIndex) ==
    IF wifiConnected
    THEN IF httpResponseCode > 0
         THEN httpResponseCode = 200 /\ okIndex > 0
         ELSE foundInList
    ELSE foundInList

\* checkCode with inputCode: the server's store and response after it, and
\* whether the door opened
checkCode(codes, store, date, inputCode, link) ==
    LET foundInList == \E i \in 1..Len(codes) : codes[i] = inputCode
        wifiConnected == link # "wifi_down"
        r == IF link = "answers"
             THEN pickupRequest(store, date, inputCode, ownBoxId)
             ELSE Responds(store, NoRes)
        httpResponseCode == IF link = "answers" THEN r.res.http
                            ELSE HttpcErrorConnectionFailed
    IN [store |-> r.store, res |-> r.res,
        foundInList |-> foundInList,
        opens |-> doorOpens(foundInList, wifiConnected, httpResponseCode,
                            okTrueIndex(r.res))]

\* a CODE line arrives on Serial, whole
ReceiveLine(line) ==
    /\ Len(line) <= SerialBufferLimit
    /\ validCodes' = serialRead(<<>>, validCodes, line).validCodes
    /\ UNCHANGED <<serverVars, opened, bridgeVars>>

\* a code is entered on the keypad and submitted
CheckCode(inputCode, link) ==
    LET c == checkCode(validCodes, cardsStore, now, inputCode, link)
    IN /\ cardsStore' = c.store
       /\ okPickups' = IF c.res.ok
                       THEN [okPickups EXCEPT ![c.res.cardId] = @ + 1]
                       ELSE okPickups
       /\ opened' = IF c.opens THEN opened \cup {<<inputCode, link>>}
                    ELSE opened
       /\ UNCHANGED <<pending, now, redIdEmailMap, validCodes, bridgeVars>>

IssuedCodes == {generatePickupCode(s, 4) : s \in Seeds}

\* codes of one to four digits 1..4, as the keypad takes them
KeypadInputs == IssuedCodes \cup {CodeNeverIssued, <<"1", "2">>}

\* lines as the bridge writes them, and lines that are not CODE messages
LineInputs ==
    {CodeLine(c, b) : c \in IssuedCodes \cup {CodeNeverIssued}, b \in BoxIds}
    \cup {CodePrefix \o CodeNeverIssued \o <<"\n">>,
          CodePrefix \o <<":">> \o ownBoxId \o <<"\n">>,
          CodePrefix \o CodeNeverIssued \o <<":">> \o ownBoxId \o <<"\r", "\n">>,
          <<"C", "\n">>}

DoReceiveLine == \E line \in LineInputs : ReceiveLine(line)

DoCheckCode == \E c \in KeypadInputs, link \in LinkStates : CheckCode(c, link)

DoFoundCardRedIdAnyBox ==
    \E s \in Seeds, b \in BoxIds : FoundCardRedId(RedIdUnknown, b, s)

\* the box at work: cards are left in the boxes, their codes reach the box
\* over Serial, codes are entered on the keypad, and the server also takes
\* pickup-requests of its other clients
NextKeypad ==
    \/ DoFoundCardRedIdAnyBox
    \/ DoReceiveLine
    \/ DoCheckCode
    \/ DoPickupRequest

SpecKeypad == Init /\ [][NextKeypad]_vars

\* the k-th of the 256 codes the server can issue: four digits over 1..4
codeNumber(k) ==
    <<allowedDigits[((k \div 64) % 4) + 1],
      allowedDigits[((k \div 16) % 4) + 1],
      allowedDigits[((k \div 4) % 4) + 1],
      allowedDigits[(k % 4) + 1]>>

\* the list after the lines of the first n codes, each naming this box
storedBefore(n) == [i \in 1..n |-> codeNumber(i - 1)]

\* the lists the box is found with: empty, and one, two or no place left
StoredBeforeInputs ==
    {storedBefore(n) :
        n \in {0, ValidCodesSize - 2, ValidCodesSize - 1, ValidCodesSize}}

SerialCodes ==
    {codeNumber(k) : k \in {0, ValidCodesSize - 2, ValidCodesSize - 1,
                            ValidCodesSize, ValidCodesSize + 1}}

\* lines as the bridge writes them for either box, and lines that are not
\* CODE messages for this box
SerialLineInputs ==
    {CodeLine(c, b) : c \in SerialCodes, b \in BoxIds}
    \cup {CodePrefix \o codeNumber(ValidCodesSize + 1) \o <<"\n">>,
          CodePrefix \o <<":">> \o ownBoxId \o <<"\n">>,
          CodeLine(codeNumber(ValidCodesSize + 1), ownBoxId \o <<":">>),
          CodePrefix \o codeNumber(ValidCodesSize) \o <<":">> \o ownBoxId
              \o <<"\r", "\n">>,
          <<"C", "\n">>}

InitSerial ==
    /\ cardsStore = <<>>
    /\ pending = <<>>
    /\ now = 1
    /\ okPickups = [id \in AnyUuids |-> 0]
    /\ redIdEmailMap = redIdEmailMapLiteral
    /\ validCodes \in StoredBeforeInputs
    /\ opened = {}
    /\ BridgeStarts

DoReceiveSerialLine == \E line \in SerialLineInputs : ReceiveLine(line)

\* the box taking lines from Serial, from a list of any filling
NextSerial == DoReceiveSerialLine

SpecSerial == InitSerial /\ [][NextSerial]_vars

\* ------------------------- the serial bridge: Arduino Communication Module
MaxEntries == 2
MaxPorts == 2

\* initializeArduinoConnection calls made so far
Initializations == finding + Len(ports)

\* serialPort.write on the object serialPort refers to: the line goes out if
\* that object's port is open, else the object keeps it until it opens
portWrite(portObjects, port, e) ==
    IF portObjects[port].status = "open"
    THEN portObjects
    ELSE [portObjects EXCEPT ![port].buffered = @ \cup {e}]

\* sendCodeToArduino's test: false when it returns without writing
canSend(port, portOpen) == ~(port = 0 \/ ~portOpen)

\* sendCodeToArduino for entry e: the port objects and the lines gone out
sendCodeToArduino(portObjects, out, port, portOpen, e) ==
    IF ~canSend(port, portOpen)
    THEN [ports |-> portObjects, written |-> out]
    ELSE [ports |-> portWrite(portObjects, port, e),
          written |-> IF portObjects[port].status = "open"
                      THEN [out EXCEPT ![e] = @ + 1]
                      ELSE out]

\* sendPickupCodeToArduino(pickupCode, boxId, cardId)
SendPickupCodeToArduino(pickupCode, box) ==
    IF ~Truthy(pickupCode) \/ ~Truthy(box)
    THEN UNCHANGED vars
    ELSE LET e == Len(pickupCodesStore) + 1
             sends == isPortOpen /\ serialPort # 0
             sent == sendCodeToArduino(ports, Append(written, 0),
                                       serialPort, isPortOpen, e)
         IN /\ Len(pickupCodesStore) < MaxEntries
            /\ isPortOpen \/ Initializations < MaxPorts
            /\ pickupCodesStore' =
                  Append(pickupCodesStore,
                         [pickupCode |-> pickupCode, boxId |-> box,
                          sent |-> sends])
            /\ finding' = IF ~isPortOpen THEN finding + 1 ELSE finding
            /\ ports' = IF sends THEN sent.ports ELSE ports
            /\ written' = IF sends THEN sent.written ELSE Append(written, 0)
            /\ timers' = Append(timers, 0)
            /\ UNCHANGED <<serialPort, isPortOpen, serverVars, boxVars>>

\* initializeArduinoConnection() up to its await (module load, or by hand)
InitializeArduinoConnection ==
    /\ Initializations < MaxPorts
    /\ finding' = IF isPortOpen /\ serialPort # 0 THEN finding
                  ELSE finding + 1
    /\ UNCHANGED <<pickupCodesStore, serialPort, isPortOpen, ports, timers,
                   written, serverVars, boxVars>>

\* initializeArduinoConnection after findArduinoPort: new SerialPort, open
FoundArduinoPort ==
    /\ finding > 0
    /\ finding' = finding - 1
    /\ ports' = Append(ports, [status |-> "opening", buffered |-> {}])
    /\ serialPort' = Len(ports) + 1
    /\ UNCHANGED <<pickupCodesStore, isPortOpen, timers, written,
                   serverVars, boxVars>>

\* sendAllStoredCodes: one timer per entry
sendAllStoredCodes(pendingTimers, port, portOpen) ==
    IF ~portOpen \/ port = 0
    THEN pendingTimers
    ELSE [e \in 1..Len(pendingTimers) |-> pendingTimers[e] + 1]

\* the callback of serialPort.open on port object p; the device takes one
\* opener at a time
PortOpened(p, err) ==
    /\ p \in 1..Len(ports)
    /\ ports[p].status = "opening"
    /\ IF err
       THEN /\ ports' = [ports EXCEPT ![p].status = "failed"]
            /\ isPortOpen' = FALSE
            /\ UNCHANGED <<timers, written>>
       ELSE /\ \A q \in 1..Len(ports) : ports[q].status # "open"
            /\ ports' = [ports EXCEPT ![p] =
                            [status |-> "open", buffered |-> {}]]
            /\ written' = [e \in 1..Len(written) |->
                            IF e \in ports[p].buffered THEN written[e] + 1
                            ELSE written[e]]
            /\ isPortOpen' = TRUE
            /\ timers' = sendAllStoredCodes(timers, serialPort, TRUE)
    /\ UNCHANGED <<pickupCodesStore, serialPort, finding, serverVars, boxVars>>

\* the setTimeout callback sendAllStoredCodes made for entry e
TimerFires(e) ==
    /\ e \in 1..Len(timers)
    /\ timers[e] > 0
    /\ timers' = [timers EXCEPT ![e] = @ - 1]
    /\ IF ~pickupCodesStore[e].sent
       THEN LET sent == sendCodeToArduino(ports, written, serialPort,
                                          isPortOpen, e)
            IN /\ ports' = sent.ports
               /\ written' = sent.written
               /\ pickupCodesStore' =
                     [pickupCodesStore EXCEPT ![e].sent = TRUE]
       ELSE UNCHANGED <<ports, written, pickupCodesStore>>
    /\ UNCHANGED <<serialPort, isPortOpen, finding, serverVars, boxVars>>

DoSendPickupCodeToArduino ==
    \E c \in IssuedCodes \cup {NULL}, b \in BoxIdInputs :
        SendPickupCodeToArduino(c, b)

DoPortOpened == \E p \in 1..MaxPorts, err \in BOOLEAN : PortOpened(p, err)

DoTimerFires == \E e \in 1..MaxEntries : TimerFires(e)

NextBridge ==
    \/ DoSendPickupCodeToArduino
    \/ InitializeArduinoConnection
    \/ FoundArduinoPort
    \/ DoPortOpened
    \/ DoTimerFires

\* the event loop runs every callback that is due: the port search settles,
\* open calls its callback, timers fire
BridgeFairness ==
    /\ WF_vars(FoundArduinoPort)
    /\ WF_vars(DoPortOpened)
    /\ \A e \in 1..MaxEntries : WF_vars(TimerFires(e))

SpecBridge == Init /\ [][NextBridge]_vars /\ BridgeFairness

\* ------------------------------------------------------------------ claims
Cards == {cardsStore[i] : i \in Indices(cardsStore)}

StatusRank(status) ==
    CASE status = "waiting_for_email" -> 0
      [] status = "email_sent" -> 1
      [] status = "picked_up" -> 2

\* C1: no card's status ever moves backward in the order
\* waiting_for_email < email_sent < picked_up, in any interleaving of the
\* handlers.
StatusNeverRegresses ==
    [][\A i \in Indices(cardsStore) :
          StatusRank(cardsStore'[i].status) >= StatusRank(cardsStore[i].status)]_vars

\* C2: for each card at most one pickup-request is ever answered ok:true with
\* that card's id.
PickupCodeConsumedOnce == \A id \in Uuids : okPickups[id] <= 1

\* C3: a card's pickedUpAt is set if and only if its status is picked_up.
PickedUpAtIffPickedUp ==
    \A card \in Cards : (card.pickedUpAt # NoDate) <=> (card.status = "picked_up")

\* C4: of two pickup-requests issued one after the other with the same valid
\* pair the first is answered ok:true and the second already_picked_up, and
\* the pickedUpAt the first one stamps is never changed by a later operation.
PickedUpAtStampedOnce ==
    [][/\ \A c \in PickupCodeInputs, b \in BoxIdInputs :
            (PickupRequest(c, b)
                /\ pickupRequest(cardsStore, now, c, b).res.ok)
            => pickupRequest(cardsStore', now', c, b).res.reason
                   = "already_picked_up"
       /\ \A i \in Indices(cardsStore) :
            cardsStore[i].pickedUpAt # NoDate
            => cardsStore'[i].pickedUpAt = cardsStore[i].pickedUpAt]_vars

NoCardMatches(pickupCode, boxId) ==
    \A card \in Cards : ~(card.pickupCode = pickupCode /\ card.boxId = boxId)

\* C5: a pickup-request whose (pickupCode, boxId) pair matches no stored card
\* is answered ok:false with reason invalid_code and leaves every card
\* unchanged.
UnknownPairIsInvalidCode ==
    \A c \in PickupCodeInputs, b \in BoxIdInputs :
        (Truthy(c) /\ Truthy(b) /\ NoCardMatches(c, b))
        => LET r == pickupRequest(cardsStore, now, c, b)
           IN /\ r.res.http = 200
              /\ ~r.res.ok
              /\ r.res.reason = "invalid_code"
              /\ r.store = cardsStore

\* C5 witness: a request may name the code of a stored card with another box
\* than the card's.
UnknownPairWitness ==
    \E card \in Cards, b \in BoxIds :
        /\ Truthy(card.pickupCode)
        /\ card.status # "picked_up"
        /\ NoCardMatches(card.pickupCode, b)

\* C6: a card created by either intake path with a boxId has its pickupCode
\* when createCard returns, before the OCR or the notifier is called.
CodeExistsAtCreation ==
    [][Len(cardsStore') > Len(cardsStore)
       => LET card == cardsStore'[Len(cardsStore')]
          IN Truthy(card.boxId) => Truthy(card.pickupCode)]_vars

\* C6 witness: a photo intake has stored its card for a box and waits for the
\* OCR, while a card of the box path is stored too.
CodeExistsAtCreationWitness ==
    /\ \E k \in Suspended("photo", "ocr") :
          \E card \in Cards :
              card.id = pending[k].cardId /\ Truthy(card.boxId)
    /\ \E card \in Cards : card.source = "box"

\* C7: a card has a pickupCode if and only if it has a boxId, and every
\* pickupCode is 4 characters long, each one of 1, 2, 3, 4.
CodeIffBoxAndWellFormed ==
    \A card \in Cards :
        /\ Truthy(card.pickupCode) <=> Truthy(card.boxId)
        /\ Truthy(card.pickupCode)
           => /\ Len(card.pickupCode) = 4
              /\ \A j \in 1..Len(card.pickupCode) :
                    card.pickupCode[j] \in {"1", "2", "3", "4"}

\* C7 witness: the store holds a card without a box and a card with one.
CodeIffBoxWitness ==
    /\ \E card \in Cards : ~Truthy(card.boxId)
    /\ \E card \in Cards : Truthy(card.boxId) /\ card.status = "email_sent"

\* C8: once a card's pickupCode is set, no operation changes it.
CodeNeverRegenerated ==
    [][\A i \in Indices(cardsStore) :
          Truthy(cardsStore[i].pickupCode)
          => cardsStore'[i].pickupCode = cardsStore[i].pickupCode]_vars

\* C8 witness: a set-email has run on a card that has a box and a code, and
\* waits for the notifier.
CodeNeverRegeneratedWitness ==
    \E k \in Suspended("set-email", "notify") :
        \E card \in Cards :
            /\ card.id = pending[k].cardId
            /\ Truthy(card.boxId)
            /\ Truthy(card.pickupCode)
            /\ card.email = pending[k].ownerEmail

\* C9: no box has two cards that are both not yet picked_up and share the
\* same pickupCode.
NoSharedCodeInBox ==
    \A i, j \in Indices(cardsStore) :
        (/\ i # j
         /\ Truthy(cardsStore[i].boxId)
         /\ cardsStore[i].boxId = cardsStore[j].boxId
         /\ cardsStore[i].status # "picked_up"
         /\ cardsStore[j].status # "picked_up")
        => cardsStore[i].pickupCode # cardsStore[j].pickupCode

\* C10: a pickup-request carrying the pickupCode and boxId of a card that has
\* a boxId and is not yet picked_up is answered ok:true with that card's id
\* and moves that card to picked_up, whatever other cards are stored.
BoxedCardRetrievable ==
    \A i \in Indices(cardsStore) :
        (Truthy(cardsStore[i].boxId) /\ cardsStore[i].status # "picked_up")
        => LET r == pickupRequest(cardsStore, now, cardsStore[i].pickupCode,
                                  cardsStore[i].boxId)
           IN /\ r.res.ok
              /\ r.res.cardId = cardsStore[i].id
              /\ r.store[i].status = "picked_up"

\* the handlers of an intake that are suspended awaiting the notifier
NotifyingIntakes == Suspended("box", "notify") \cup Suspended("photo", "notify")

\* C11: while the intake handler of a card that has a boxId is suspended
\* awaiting the notifier, a pickup-request with that card's pickupCode and
\* boxId finds that card and is answered ok:true (the card not being picked
\* up yet).
CodeUsableWhileNotifying ==
    \A k \in NotifyingIntakes :
        LET card == cardsStore[findCardById(cardsStore, pending[k].cardId)]
        IN (Truthy(card.boxId) /\ card.status # "picked_up")
           => LET r == pickupRequest(cardsStore, now, card.pickupCode,
                                     card.boxId)
              IN r.res.ok /\ r.res.cardId = card.id

\* C12: a pickup-request whose pair matches a card that is waiting_for_email
\* or email_sent is answered ok:true with that card's id, and a GET
\* /cards/:id that follows shows the card picked_up with a pickedUpAt.
PickupFromAnyOpenStatus ==
    \A c \in PickupCodeInputs, b \in BoxIdInputs :
        LET i == findCardByPickupCode(cardsStore, c, b)
        IN (/\ Truthy(c)
            /\ Truthy(b)
            /\ i # 0
            /\ cardsStore[i].status \in {"waiting_for_email", "email_sent"})
           => LET r == pickupRequest(cardsStore, now, c, b)
                  got == getCard(r.store, cardsStore[i].id)
              IN /\ r.res.http = 200
                 /\ r.res.ok
                 /\ r.res.cardId = cardsStore[i].id
                 /\ got.http = 200
                 /\ got.card.id = cardsStore[i].id
                 /\ got.card.status = "picked_up"
                 /\ got.card.pickedUpAt # NoDate

\* C12 witness: one card was picked up while it waited for an email, and
\* another, notified, card is matched by its pair.
PickupFromAnyOpenStatusWitness ==
    \E taken \in Cards, i \in Indices(cardsStore) :
        /\ taken.status = "picked_up"
        /\ ~Truthy(taken.email)
        /\ okPickups[taken.id] = 1
        /\ cardsStore[i].status = "email_sent"
        /\ findCardByPickupCode(cardsStore, cardsStore[i].pickupCode,
                                cardsStore[i].boxId) = i

\* C13: a set-email request for a card that is email_sent or picked_up is
\* rejected with a 400 response, leaves every field of every card as it was,
\* and does not call the notifier.
SetEmailRejectedUnlessWaiting ==
    \A id \in CardIdInputs, e \in EmailInputs, s \in Seeds :
        LET i == findCardById(cardsStore, id)
        IN (i # 0 /\ cardsStore[i].status \in {"email_sent", "picked_up"})
           => LET r == setEmail(cardsStore, s, id, e)
              IN /\ ~r.awaiting
                 /\ r.res.http = 400
                 /\ r.store = cardsStore

\* C13 witness: the store holds a notified card and a picked-up card whose
\* email differs from the one a request would carry.
SetEmailRejectedWitness ==
    \E sent, taken \in Cards :
        /\ sent.status = "email_sent"
        /\ sent.email # EmailStaff
        /\ taken.status = "picked_up"
        /\ taken.email # EmailStaff

\* a handler turned the request away: a 400 response, no await, and the store
\* as it was
Rejected400(r) == ~r.awaiting /\ r.res.http = 400 /\ r.store = cardsStore

\* C14: a set-email without an email or with one that has no '@', a
\* found-card-redid without redId or boxId, a pickup-request without
\* pickupCode or boxId, and a found-card-photo without an image are each
\* answered 400 and leave the set of cards and every card's fields unchanged.
InvalidRequestsLeaveStore ==
    /\ \A id \in CardIdInputs, e \in {NULL, EmailNoAt}, s \in Seeds :
          Rejected400(setEmail(cardsStore, s, id, e))
    /\ \A id \in Uuids, redId \in RedIdInputs, b \in BoxIdInputs, s \in Seeds :
          (redId = NULL \/ b = NULL)
          => Rejected400(foundCardRedId(cardsStore, now, id, s, redId, b))
    /\ \A c \in PickupCodeInputs, b \in BoxIdInputs :
          (c = NULL \/ b = NULL)
          => Rejected400(pickupRequest(cardsStore, now, c, b))
    /\ \A id \in Uuids, b \in PhotoBoxIdInputs, m \in ManualRedIdInputs,
          s \in Seeds :
          Rejected400(foundCardPhoto(cardsStore, now, id, s, "none", NULL,
                                     NULL, b, m))

\* C14 witness: the store has room for another card and holds a card for
\* which a set-email with a valid address is accepted and a pickup-request
\* with its pair is answered ok:true.
InvalidRequestsWitness ==
    /\ Len(cardsStore) < MaxCards
    /\ \E card \in Cards :
          /\ setEmail(cardsStore, 0, card.id, EmailStaff).awaiting
          /\ pickupRequest(cardsStore, now, card.pickupCode, card.boxId).res.ok

\* the continuation of the k-th suspended handler, an intake awaiting the
\* notifier, when the notifier settles with this outcome
intakeNotified(k, outcome) ==
    IF pending[k].kind = "box"
    THEN foundCardRedIdNotified(cardsStore, pending[k], outcome)
    ELSE foundCardPhotoNotified(cardsStore, pending[k], outcome)

\* C15: an intake of either path awaits the notifier only with the email its
\* card's identifier resolves to; when the notifier reports success the
\* handler leaves the card email_sent with that email, and when it reports
\* failure the handler leaves the card with that email and with the status it
\* had, so a card waiting_for_email stays waiting_for_email.
IntakeNotifyOutcome ==
    \A k \in NotifyingIntakes :
        LET i == findCardById(cardsStore, pending[k].cardId)
            card == cardsStore[i]
            resolved == getEmailByRedId(card.redId)
            sent == intakeNotified(k, "true").store[i]
            failed == intakeNotified(k, "false").store[i]
        IN /\ Truthy(resolved)
           /\ pending[k].ownerEmail = resolved
           /\ sent.status = "email_sent"
           /\ sent.email = resolved
           /\ failed.email = resolved
           /\ failed.status = card.status

\* C15 witness: an intake awaits the notifier for a card that waits for its
\* email, and another card has been through a failed notification: it has
\* the resolved email and still waits.
IntakeNotifyOutcomeWitness ==
    /\ \E k \in NotifyingIntakes :
          \E card \in Cards :
              /\ card.id = pending[k].cardId
              /\ card.status = "waiting_for_email"
              /\ ~Truthy(card.email)
    /\ \E card \in Cards :
          /\ card.status = "waiting_for_email"
          /\ Truthy(card.email)
          /\ card.email = getEmailByRedId(card.redId)
          /\ \A k \in 1..Len(pending) : pending[k].cardId # card.id

\* C16: a set-email with a valid email for a card that is waiting_for_email
\* stores the email and awaits the notifier; when the notifier reports
\* success the card becomes email_sent with that email and the response is
\* 200 success:true; when it reports failure the card keeps that email and
\* stays waiting_for_email, and the response is 500 success:false, another
\* code than the 400 of a request that fails validation.  In every
\* interleaving the continuation writes nothing but the status, and that on
\* success only.
SetEmailNotifyOutcome ==
    /\ \A id \in Uuids, s \in Seeds :
          LET i == findCardById(cardsStore, id)
          IN (i # 0 /\ cardsStore[i].status = "waiting_for_email")
             => LET r == setEmail(cardsStore, s, id, EmailStaff)
                    sent == setEmailNotified(r.store, r.locals, "true")
                    failed == setEmailNotified(r.store, r.locals, "false")
                    invalid == setEmail(cardsStore, s, id, EmailNoAt)
                IN /\ r.awaiting
                   /\ r.store[i].email = EmailStaff
                   /\ r.store[i].status = "waiting_for_email"
                   /\ sent.store[i].status = "email_sent"
                   /\ sent.store[i].email = EmailStaff
                   /\ sent.res.http = 200
                   /\ sent.res.success
                   /\ failed.store = r.store
                   /\ failed.res.http = 500
                   /\ ~failed.res.success
                   /\ invalid.res.http = 400
    /\ \A k \in Suspended("set-email", "notify") :
          LET i == findCardById(cardsStore, pending[k].cardId)
              sent == setEmailNotified(cardsStore, pending[k], "true")
              failed == setEmailNotified(cardsStore, pending[k], "false")
          IN /\ sent.store[i].status = "email_sent"
             /\ sent.store[i].email = cardsStore[i].email
             /\ failed.store = cardsStore
             /\ failed.res.http = 500

\* C16 witness: a set-email awaits the notifier for a card that has the
\* given email and still waits, and another card has been notified at the
\* email a set-email gave it.
SetEmailNotifyOutcomeWitness ==
    /\ \E k \in Suspended("set-email", "notify") :
          \E card \in Cards :
              /\ card.id = pending[k].cardId
              /\ card.status = "waiting_for_email"
              /\ card.email = EmailStaff
    /\ \E card \in Cards :
          /\ card.status = "email_sent"
          /\ card.email = EmailStaff
          /\ \A k \in 1..Len(pending) : pending[k].cardId # card.id

\* C17: an email that a set-email wrote to a card while the card's intake
\* handler was suspended is still the card's email when the intake handler
\* finishes, whatever the notifier's outcome.
SetEmailSurvivesIntake ==
    \A k \in NotifyingIntakes, outcome \in NotifyOutcomes :
        LET i == findCardById(cardsStore, pending[k].cardId)
        IN Truthy(cardsStore[i].email)
           => intakeNotified(k, outcome).store[i].email = cardsStore[i].email

\* C18: in photo intake the identifier stored on the card, used for the
\* owner lookup and reported in the response is the manual one, trimmed,
\* whenever that is not empty, whatever the OCR read; it is the OCR's only
\* when the manual one is absent or blank.
ManualRedIdTakesPrecedence ==
    \A k \in Suspended("photo", "ocr"), ocr \in OcrOutcomes :
        LET p == pending[k]
            i == findCardById(cardsStore, p.cardId)
            manual == Trim(p.manualRedId)
            read == IF ocr.threw THEN NULL ELSE ocr.redId
            used == IF manual # NULL THEN manual ELSE read
            r == foundCardPhotoOcr(cardsStore, p, ocr)
        IN /\ r.store[i].redId = used
           /\ r.awaiting <=> Truthy(getEmailByRedId(used))
           /\ r.awaiting => r.locals.ownerEmail = getEmailByRedId(used)
           /\ ~r.awaiting => r.res.redId = used

\* C18 witness: a photo intake awaits the OCR with a manual identifier that
\* no owner has while the OCR may read one that has, and another photo
\* intake is past the selection with its manual identifier, trimmed, on the
\* card.
ManualRedIdWitness ==
    /\ \E k \in Suspended("photo", "ocr") : pending[k].manualRedId = RedIdUnknown
    /\ \E ocr \in OcrOutcomes : Truthy(getEmailByRedId(ocr.redId))
    /\ \E card \in Cards :
          /\ card.source = "web"
          /\ card.redId = Trim(RedIdSpaced)
          /\ card.redId # RedIdSpaced

\* C19: when the OCR call throws, the photo intake goes on exactly as when
\* the OCR returns nothing: the card stays stored, a manual identifier is
\* stored and looked up and its owner notified, and the request ends with the
\* 200 response, whatever the notifier does.
OcrFailureDoesNotAbort ==
    \A k \in Suspended("photo", "ocr"), ocr \in OcrOutcomes :
        ocr.threw
        => LET p == pending[k]
               i == findCardById(cardsStore, p.cardId)
               manual == Trim(p.manualRedId)
               r == foundCardPhotoOcr(cardsStore, p, ocr)
               nothing == [threw |-> FALSE, redId |-> NULL, fullName |-> NULL]
           IN /\ r = foundCardPhotoOcr(cardsStore, p, nothing)
              /\ Len(r.store) = Len(cardsStore)
              /\ r.store[i].id = p.cardId
              /\ manual # NULL
                 => /\ r.store[i].redId = manual
                    /\ r.awaiting <=> Truthy(getEmailByRedId(manual))
              /\ ~r.awaiting
                 => r.res.http = 200 /\ r.res.cardId = p.cardId
              /\ r.awaiting
                 => \A outcome \in NotifyOutcomes :
                       LET end == foundCardPhotoNotified(r.store, r.locals,
                                                         outcome)
                       IN /\ end.res.http = 200
                          /\ end.res.cardId = p.cardId
                          /\ end.store[i].email = getEmailByRedId(manual)

\* C19 witness: a photo intake with a manual identifier that has an owner
\* awaits the OCR, and another one awaits the notifier for its manual
\* identifier with nothing read by the OCR.
OcrFailureWitness ==
    /\ \E k \in Suspended("photo", "ocr") :
          Truthy(getEmailByRedId(Trim(pending[k].manualRedId)))
    /\ \E k \in Suspended("photo", "notify") :
          /\ pending[k].redIdToUse = Trim(pending[k].manualRedId)
          /\ ~Truthy(pending[k].extractedFullName)

BoxIntakeCreatesOneCard ==
    /\ \A id \in AnyUuids, redId \in {RedIdA, RedIdUnknown}, b \in BoxIds,
          s \in Seeds :
          findCardById(cardsStore, id) = 0
          => LET r == foundCardRedId(cardsStore, now, id, s, redId, b)
                 n == Len(cardsStore) + 1
                 card == r.store[n]
             IN /\ Len(r.store) = n
                /\ SubSeq(r.store, 1, n - 1) = cardsStore
                /\ card.id = id
                /\ card.source = "box"
                /\ card.boxId = b
                /\ card.redId = redId
                /\ card.pickupCode = generatePickupCode(s, 4)
                /\ Truthy(card.pickupCode)
                /\ ~r.awaiting
                   => /\ r.res.http = 200
                      /\ r.res.cardId = id
                      /\ r.res.pickupCode = card.pickupCode
                /\ r.awaiting
                   => \A outcome \in NotifyOutcomes :
                         LET done == foundCardRedIdNotified(r.store, r.locals,
                                                            outcome)
                         IN /\ Len(done.store) = n
                            /\ done.res.http = 200
                            /\ done.res.cardId = id
                            /\ done.res.pickupCode = card.pickupCode
    /\ \A k \in Suspended("box", "notify"), outcome \in NotifyOutcomes :
          LET i == findCardById(cardsStore, pending[k].cardId)
              done == foundCardRedIdNotified(cardsStore, pending[k], outcome)
          IN /\ Len(done.store) = Len(cardsStore)
             /\ done.res.http = 200
             /\ done.res.cardId = cardsStore[i].id
             /\ done.res.pickupCode = cardsStore[i].pickupCode
             /\ done.store[i].source = "box"
             /\ done.store[i].boxId = cardsStore[i].boxId
             /\ done.store[i].redId = cardsStore[i].redId

\* C21 witness: one box intake has been answered without a notification, a
\* second one awaits the notifier, and the two cards differ in id.
BoxIntakeWitness ==
    \E k \in Suspended("box", "notify"), card \in Cards :
        /\ card.source = "box"
        /\ card.redId = RedIdUnknown
        /\ Truthy(card.pickupCode)
        /\ card.id # pending[k].cardId

\* the OCR outcomes that yield no identifier
OcrWithoutRedId == {ocr \in OcrOutcomes : ocr.threw \/ ocr.redId = NULL}

WellFormedCode(code) ==
    /\ Len(code) = 4
    /\ \A j \in 1..Len(code) : code[j] \in {"1", "2", "3", "4"}

\* C22: a photo intake with a boxId, a manual identifier that is absent or
\* blank and an OCR that yields no identifier does not await the notifier:
\* it answers 200 with a pickupCode of 4 characters of 1..4, emailSent false
\* and no emailAddress, and its card is waiting_for_email without an email
\* (in an interleaving: with the status and email it had when the OCR
\* settled).
NoIdentifierNoNotification ==
    /\ \A m \in {NULL, <<" ">>}, s \in Seeds, ocr \in OcrWithoutRedId :
          Len(cardsStore) < Len(UuidPool)
          => LET id == randomUUID
                 r0 == foundCardPhoto(cardsStore, now, id, s, "file", NULL,
                                      NULL, Box1, m)
                 r == foundCardPhotoOcr(r0.store, r0.locals, ocr)
                 card == r.store[Len(r.store)]
             IN /\ r0.awaiting
                /\ ~r.awaiting
                /\ r.res.http = 200
                /\ r.res.cardId = id
                /\ WellFormedCode(r.res.pickupCode)
                /\ ~r.res.emailSent
                /\ r.res.emailAddress = NULL
                /\ card.id = id
                /\ card.pickupCode = r.res.pickupCode
                /\ card.status = "waiting_for_email"
                /\ card.email = NULL
    /\ \A k \in Suspended("photo", "ocr"), ocr \in OcrWithoutRedId :
          LET i == findCardById(cardsStore, pending[k].cardId)
              r == foundCardPhotoOcr(cardsStore, pending[k], ocr)
          IN (Truthy(cardsStore[i].boxId) /\ Trim(pending[k].manualRedId) = NULL)
             => /\ ~r.awaiting
                /\ r.res.http = 200
                /\ WellFormedCode(r.res.pickupCode)
                /\ r.res.pickupCode = cardsStore[i].pickupCode
                /\ ~r.res.emailSent
                /\ r.res.emailAddress = NULL
                /\ r.store = cardsStore

\* C22 witness: a photo intake for a box with a blank manual identifier
\* awaits the OCR, and the card of another one, answered without an
\* identifier, waits for an email it does not have.
NoIdentifierWitness ==
    /\ \E k \in Suspended("photo", "ocr") :
          /\ pending[k].manualRedId = <<" ">>
          /\ \E card \in Cards :
                card.id = pending[k].cardId /\ Truthy(card.boxId)
    /\ \E card \in Cards :
          /\ card.source = "web"
          /\ Truthy(card.boxId)
          /\ card.redId = NULL
          /\ card.email = NULL
          /\ card.status = "waiting_for_email"
          /\ \A k \in 1..Len(pending) : pending[k].cardId # card.id

\* the photo intakes for a box, with a manual identifier that has an owner,
\* that are suspended at this await
ResolvingPhotoIntakes(pc) ==
    {k \in Suspended("photo", pc) :
        /\ Truthy(cardsStore[findCardById(cardsStore, pending[k].cardId)].boxId)
        /\ Truthy(getEmailByRedId(Trim(pending[k].manualRedId)))}

\* what the photo intake suspended as k ends with when the notifier settles
\* with this outcome: the card notified at the manual identifier's email, and
\* the response saying so
EndsNotified(k, outcome) ==
    LET i == findCardById(cardsStore, pending[k].cardId)
        resolved == getEmailByRedId(Trim(pending[k].manualRedId))
        r == foundCardPhotoNotified(cardsStore, pending[k], outcome)
    IN /\ r.store[i].status = "email_sent"
       /\ r.store[i].email = resolved
       /\ r.res.http = 200
       /\ r.res.emailSent
       /\ r.res.emailAddress = resolved

RedIdFixedOnceNotified ==
    [][\A i \in 1..Len(cardsStore) :
          cardsStore[i].status = "email_sent"
              => cardsStore'[i].redId = cardsStore[i].redId]_vars

\* the stored cards whose id is the token, and those whose reference code
\* the token spells
WithId(token) == {i \in Indices(cardsStore) : cardsStore[i].id = token}
WithReferenceCode(token) ==
    {i \in Indices(cardsStore) :
        toUpperCase(SubSeq(cardsStore[i].id, 1, 8)) = toUpperCase(Trim(token))}

\* C25: GET /cards/:id answers with the card whose id is the token when there
\* is one, otherwise with a card whose reference code the token spells when
\* there is one, and it leaves the store as it found it and awaits nothing.
GetCardByIdThenCode ==
    \A token \in TokenInputs :
        LET r == getCardRequest(cardsStore, token)
        IN /\ r.store = cardsStore
           /\ ~r.awaiting
           /\ WithId(token) # {}
                 => r.res.http = 200 /\ r.res.card.id = token
           /\ WithId(token) = {} /\ WithReferenceCode(token) # {}
                 => /\ r.res.http = 200
                    /\ \E i \in WithReferenceCode(token) :
                          r.res.card = cardsStore[i]

\* C25 witness: the store holds two cards with one reference code, one token
\* is the id of the second of them and another token is their code.
GetCardWitness ==
    /\ Len(cardsStore) >= 2
    /\ \E token \in TokenInputs :
          /\ WithId(token) # {}
          /\ \A i \in WithId(token) : i > 1
          /\ \E other \in WithReferenceCode(SubSeq(token, 1, 8)) : other = 1
    /\ \E token \in TokenInputs :
          WithId(token) = {} /\ Cardinality(WithReferenceCode(token)) = 2

\* every way of writing a lower-case string with some letters in upper case
RECURSIVE CaseVariants(_)
CaseVariants(s) ==
    IF s = <<>> THEN {<<>>}
    ELSE {<<c>> \o v : c \in {s[1], UpperChar(s[1])},
                       v \in CaseVariants(Tail(s))}

\* C26: for every stored card, every upper/lower-case variant of the first 8
\* characters of its id finds one and the same card, a card with these same
\* first 8 characters.
ReferenceCodeIgnoresCase ==
    \A i \in Indices(cardsStore) :
        LET prefix == SubSeq(cardsStore[i].id, 1, 8)
        IN \E j \in Indices(cardsStore) :
              /\ SubSeq(cardsStore[j].id, 1, 8) = prefix
              /\ \A v \in CaseVariants(prefix) :
                    findCardByReferenceCode(cardsStore, v) = j

\* C26 witness: cards with different codes are stored, and the code of the
\* later one has letters, so that it can be written in more than one way.
ReferenceCodeWitness ==
    \E i, j \in Indices(cardsStore) :
        /\ i < j
        /\ SubSeq(cardsStore[i].id, 1, 8) # SubSeq(cardsStore[j].id, 1, 8)
        /\ Cardinality(CaseVariants(SubSeq(cardsStore[j].id, 1, 8))) > 1
        /\ findCardByReferenceCode(cardsStore, SubSeq(cardsStore[j].id, 1, 8)) = j

\* the positions of the stored cards with the reference code of the card at i
SharingCode(store, i) ==
    {j \in 1..Len(store) : SubSeq(store[j].id, 1, 8) = SubSeq(store[i].id, 1, 8)}

\* C27: the reference code of every stored card finds the earliest inserted
\* of the cards that share it, and after any step it still finds that card.
FirstInsertedWins ==
    /\ [](\A i \in Indices(cardsStore) :
            LET k == findCardByReferenceCode(cardsStore,
                                             SubSeq(cardsStore[i].id, 1, 8))
            IN k \in SharingCode(cardsStore, i)
               /\ \A j \in SharingCode(cardsStore, i) : k <= j)
    /\ [][\A i \in Indices(cardsStore) :
            LET code == SubSeq(cardsStore[i].id, 1, 8)
                k == findCardByReferenceCode(cardsStore, code)
                k2 == findCardByReferenceCode(cardsStore', code)
            IN k2 # 0 /\ cardsStore'[k2].id = cardsStore[k].id]_vars

\* C27 witness: two cards share a reference code, both have been updated,
\* and their code finds the earlier one.
FirstInsertedWitness ==
    \E i, j \in Indices(cardsStore) :
        /\ i < j
        /\ j \in SharingCode(cardsStore, i)
        /\ cardsStore[j].status # "waiting_for_email"
        /\ cardsStore[i].status # "waiting_for_email"
        /\ findCardByReferenceCode(cardsStore,
                                   toUpperCase(SubSeq(cardsStore[j].id, 1, 8))) = i

\* the stored cards GET /cards is asked for
Asked(status) ==
    {i \in Indices(cardsStore) : status = "" \/ cardsStore[i].status = status}

\* C28: GET /cards answers with exactly the stored cards in the status asked
\* for (all of them without a status), each once, a newer card before an
\* older one, and leaves the store and its order as they are.
GetCardsFilteredNewestFirst ==
    \A status \in StatusInputs :
        LET r == getCards(cardsStore, status)
            cards == r.res.cards
        IN /\ r.store = cardsStore
           /\ r.res.http = 200
           /\ Len(cards) = Cardinality(Asked(status))
           /\ {cards[k] : k \in 1..Len(cards)}
                  = {cardsStore[i] : i \in Asked(status)}
           /\ \A k, l \in 1..Len(cards) :
                  k < l => cards[k].createdAt >= cards[l].createdAt

\* C28 witness: the store holds cards created at different times and in
\* different statuses, so that the answer without a status is in another
\* order than the store and the answer for a status leaves a card out.
GetCardsWitness ==
    /\ getCards(cardsStore, "").res.cards # cardsStore
    /\ \E status \in StatusInputs :
          /\ Asked(status) # {}
          /\ Asked(status) # Indices(cardsStore)
          /\ Len(getCards(cardsStore, status).res.cards) = 1

\* C29: a token that is not the id of a stored card and is not, in any
\* casing, the first 8 characters of the id of one is answered with 404.
UnknownTokenNotFound ==
    \A token \in TokenInputs :
        (/\ WithId(token) = {}
         /\ \A i \in Indices(cardsStore) :
               toUpperCase(SubSeq(cardsStore[i].id, 1, 8)) # toUpperCase(token))
            => getCardRequest(cardsStore, token).res.http = 404

\* the identifiers the resolver is asked about: unset, blank, known (plain
\* and with spaces), unknown
ResolverInputs ==
    {NULL, <<" ">>, RedIdA, RedIdSpaced, RedIdB, RedIdUnknown}

SameCodeElsewhere(store, pickupCode, boxId) ==
    {j \in 1..Len(store) :
        /\ store[j].pickupCode = pickupCode
        /\ Truthy(store[j].boxId)
        /\ store[j].boxId # boxId
        /\ store[j].status # "picked_up"
        /\ \A l \in 1..(j - 1) :
              ~(store[l].pickupCode = pickupCode /\ store[l].boxId = store[j].boxId)}

\* C31: a pickup-request answered ok:true for (code, box) changes the status
\* and pickedUpAt of the matched card and nothing else in the store, and an
\* open card of another box with the same code is still handed out for the
\* code and its own box afterwards.
PickupScopedToBox ==
    \A pickupCode \in PickupCodeInputs, boxId \in BoxIdInputs :
        LET r == pickupRequest(cardsStore, now, pickupCode, boxId)
        IN r.res.ok =>
              LET i == findCardById(cardsStore, r.res.cardId)
              IN /\ Len(r.store) = Len(cardsStore)
                 /\ cardsStore[i].pickupCode = pickupCode
                 /\ cardsStore[i].boxId = boxId
                 /\ r.store[i] = [cardsStore[i] EXCEPT !.status = "picked_up",
                                                       !.pickedUpAt = now]
                 /\ \A j \in Indices(cardsStore) \ {i} :
                       r.store[j] = cardsStore[j]
                 /\ \A j \in SameCodeElsewhere(cardsStore, pickupCode, boxId) :
                       LET again == pickupRequest(r.store, now, pickupCode,
                                                  cardsStore[j].boxId)
                       IN again.res.ok /\ again.res.cardId = cardsStore[j].id

\* C31 witness: two boxes hold a card each under one code; the card of one
\* box has been picked up and the card of the other is open.
PickupScopedWitness ==
    \E i, j \in Indices(cardsStore) :
        /\ cardsStore[i].status = "picked_up"
        /\ Truthy(cardsStore[i].pickupCode)
        /\ okPickups[cardsStore[i].id] = 1
        /\ j \in SameCodeElsewhere(cardsStore, cardsStore[i].pickupCode,
                                   cardsStore[i].boxId)

\* C32: once a pickup-request has been answered ok:true for a card, a further
\* pickup-request with the card's pickupCode and boxId leaves the store as
\* it is.
RepeatedPickupLeavesStore ==
    \A i \in Indices(cardsStore) :
        okPickups[cardsStore[i].id] >= 1
            => pickupRequest(cardsStore, now, cardsStore[i].pickupCode,
                             cardsStore[i].boxId).store = cardsStore

\* the open cards in a box that no suspended handler is working on
OpenAndQuiet ==
    {i \in Indices(cardsStore) :
        /\ Truthy(cardsStore[i].boxId)
        /\ Truthy(cardsStore[i].pickupCode)
        /\ cardsStore[i].status # "picked_up"
        /\ \A k \in 1..Len(pending) : pending[k].cardId # cardsStore[i].id}

\* the responses to three pickup-requests for one pair that arrive together:
\* the handler awaits nothing, so they run one after the other
ThreePickups(pickupCode, boxId) ==
    LET r1 == pickupRequest(cardsStore, now, pickupCode, boxId)
        r2 == pickupRequest(r1.store, now, pickupCode, boxId)
        r3 == pickupRequest(r2.store, now, pickupCode, boxId)
    IN <<r1.res, r2.res, r3.res>>

\* C33: for an open card that only pickup-requests are in flight for,
\* pickup-requests with its pickupCode and boxId that arrive together get
\* exactly one ok:true and already_picked_up otherwise.
ConcurrentPickupsOneWinner ==
    \A i \in OpenAndQuiet :
        LET res == ThreePickups(cardsStore[i].pickupCode, cardsStore[i].boxId)
        IN /\ Cardinality({n \in 1..3 : res[n].ok}) = 1
           /\ \A n \in 1..3 :
                 ~res[n].ok => res[n].reason = "already_picked_up"

\* C34: when the notifier reports success to a set-email handler for a card
\* that is waiting_for_email (no notification has succeeded for it yet), the
\* card it leaves email_sent carries the address that notification went to,
\* whatever other set-email requests ran during the await.
AssignedEmailWasNotified ==
    \A k \in Suspended("set-email", "notify") :
        LET i == findCardById(cardsStore, pending[k].cardId)
            r == setEmailNotified(cardsStore, pending[k], "true")
        IN (cardsStore[i].status = "waiting_for_email"
              /\ r.store[i].status = "email_sent")
             => r.store[i].email = pending[k].ownerEmail

\* C35: a card whose status is email_sent has an email.
NotifiedCardHasEmail ==
    \A card \in Cards : card.status = "email_sent" => Truthy(card.email)

\* C35 witness: one card has been notified by its intake at the resolved
\* address and another by a set-email at the address the staff gave.
NotifiedCardWitness ==
    \E a, b \in Cards :
        /\ a.status = "email_sent" /\ a.email = EmailA
        /\ b.status = "email_sent" /\ b.email = EmailStaff
        /\ b.redId # RedIdA
        /\ pending = <<>>

\* C36: a set-email that goes on to the notifier for a card with a boxId and
\* no pickupCode has stored a well-formed code on the card by the time it
\* awaits the notifier and hands that code on; a card that had a code keeps
\* it, and a card in a box never goes to the notifier without one.
LateCodeBeforeNotification ==
    \A id \in CardIdInputs, email \in EmailInputs :
        \A seed \in LateSeeds(id) :
            LET i == findCardById(cardsStore, id)
                r == setEmail(cardsStore, seed, id, email)
            IN (i # 0 /\ r.awaiting) =>
                  /\ r.locals.pc = "notify"
                  /\ r.locals.pickupCode = r.store[i].pickupCode
                  /\ Truthy(cardsStore[i].boxId)
                        => /\ Truthy(r.store[i].pickupCode)
                           /\ WellFormedCode(r.store[i].pickupCode)
                  /\ Truthy(cardsStore[i].pickupCode)
                        => r.store[i].pickupCode = cardsStore[i].pickupCode
                  /\ ~Truthy(cardsStore[i].boxId)
                        => r.store[i].pickupCode = cardsStore[i].pickupCode

\* C36 witness: the card that came without a code is in a box, a set-email
\* for it awaits the notifier, and the card and the handler hold one code.
LateCodeWitness ==
    \E k \in Suspended("set-email", "notify") :
        LET i == findCardById(cardsStore, pending[k].cardId)
        IN /\ i = 1
           /\ Truthy(cardsStore[i].boxId)
           /\ cardsStore[i].status = "waiting_for_email"
           /\ Truthy(cardsStore[i].pickupCode)
           /\ pending[k].pickupCode = cardsStore[i].pickupCode

\* what checkCode does with inputCode in the state the box and the server
\* are in
Entering(inputCode, link) ==
    checkCode(validCodes, cardsStore, now, inputCode, link)

\* C37: the door opens for a keypad-entered code only when the server
\* answered the pickup-request with 200 and ok:true, or when the server was
\* not reached (or WiFi is down) and the code is in the box's list; when the
\* server answers not-ok the door stays closed, also for a code in the list.
DoorOpensVerifiedOrOffline ==
    \A inputCode \in KeypadInputs, link \in LinkStates :
        LET c == Entering(inputCode, link)
            verified == c.res.http = 200 /\ c.res.ok
        IN /\ c.opens =>
                \/ link = "answers" /\ verified
                \/ link # "answers" /\ c.foundInList
           /\ (link = "answers" /\ ~verified) => ~c.opens
           /\ <<inputCode, link>> \in opened =>
                \/ link = "answers"
                   /\ \E i \in Indices(cardsStore) :
                        /\ cardsStore[i].pickupCode = inputCode
                        /\ cardsStore[i].boxId = ownBoxId
                        /\ cardsStore[i].status = "picked_up"
                \/ link # "answers" /\ c.foundInList

\* C37 witness: the door has opened once on the server's answer and once
\* offline from the list, and a listed code that the server now rejects
\* would leave it closed.
DoorOpensWitness ==
    \E inputCode \in KeypadInputs :
        /\ <<inputCode, "answers">> \in opened
        /\ \E other \in KeypadInputs, link \in {"unreachable", "wifi_down"} :
                <<other, link>> \in opened
        /\ Entering(inputCode, "answers").foundInList
        /\ ~Entering(inputCode, "answers").res.ok
        /\ ~Entering(inputCode, "answers").opens

\* C38: once the card of a code has been picked up from this box (its
\* status at the server is picked_up), entering the code on the keypad
\* opens the door in no state of the link.
PickedUpCodeOpensNoMore ==
    \A i \in Indices(cardsStore), link \in LinkStates :
        (/\ cardsStore[i].boxId = ownBoxId
         /\ cardsStore[i].status = "picked_up"
         /\ cardsStore[i].pickupCode \in KeypadInputs)
        => ~Entering(cardsStore[i].pickupCode, link).opens

\* does the line name this box and carry the code, as the bridge writes it
NamesOwnBox(line, code) ==
    \/ line = CodeLine(code, ownBoxId)
    \/ line = CodePrefix \o code \o <<":">> \o ownBoxId \o <<"\r", "\n">>

\* the list after the line, read on its own
AfterLine(line) == serialRead(<<>>, validCodes, line).validCodes

\* C39: after any sequence of CODE lines the list holds at most 20 codes and
\* no code twice; a line that names another box, or that arrives when the
\* list is full, leaves the list as it was; and whenever the list changes it
\* grows by the one code of a line that named this box.
ValidCodesBoundedDistinctOwn ==
    /\ [](/\ Len(validCodes) <= 20
          /\ \A i, j \in 1..Len(validCodes) :
                validCodes[i] = validCodes[j] => i = j
          /\ \A line \in SerialLineInputs :
                (\/ Len(validCodes) = 20
                 \/ \A code \in SerialCodes : ~NamesOwnBox(line, code))
                => AfterLine(line) = validCodes)
    /\ [][\E code \in SerialCodes :
            /\ validCodes' = Append(validCodes, code)
            /\ \E line \in SerialLineInputs : NamesOwnBox(line, code)]_validCodes

\* C39 witness: the list is full, with its last place taken by a code that
\* came in a line, and there are lines naming this box with a code it does
\* not hold.
ValidCodesWitness ==
    /\ Len(validCodes) = 20
    /\ validCodes[20] = codeNumber(ValidCodesSize + 1)
    /\ \E code \in SerialCodes :
        /\ \A i \in 1..Len(validCodes) : validCodes[i] # code
        /\ CodeLine(code, ownBoxId) \in SerialLineInputs

PortIsOpen == \E p \in 1..Len(ports) : ports[p].status = "open"

\* entry e is stored, not marked sent, and the port is open
WaitsAtOpenPort(e) ==
    IF e <= Len(pickupCodesStore)
    THEN ~pickupCodesStore[e].sent /\ PortIsOpen
    ELSE FALSE

IsWritten(e) == IF e <= Len(written) THEN written[e] = 1 ELSE FALSE

\* C40: every entry's line goes out on the serial port at most once, and an
\* entry that was stored while the port was closed (so not yet marked sent)
\* has its line go out once the port is open.
EntriesWrittenOnceAndEventually ==
    /\ [](\A e \in 1..Len(written) : written[e] <= 1)
    /\ \A e \in 1..MaxEntries : WaitsAtOpenPort(e) ~> IsWritten(e)

====
